---- MODULE Spec2Model ----
(***************************************************************************)
(* A model of miniChemistry's computation core:                            *)
(*   - Datum               (Computations/Datum.py)                         *)
(*   - QuantityCalculator  (Computations/QuantityCalculator.py)            *)
(*   - IterativeCalculator (Computations/IterativeCalculator.py)           *)
(*   - Equalizer           (Core/Tools/Equalizer.py)                       *)
(*                                                                         *)
(* Magnitudes are fixed-point numbers counted in thousandths: 1.0 is 1000. *)
(* A Datum is a record [variable, magnitude, units].                       *)
(***************************************************************************)
EXTENDS Integers, Sequences, FiniteSets, TLC

VARIABLES
    values,     \* QuantityCalculator._values: the list of known Datum
    formulas_list, \* QuantityCalculator._formulas_list: the formula bank
    tfl,        \* QuantityCalculator._tfl: the working copy of the formulas
    target,     \* IterativeCalculator._target: <<>> (None) or <<Datum>>
    last,       \* the last call: its name, arguments, exception and result
    calls,      \* the number of calls made on the calculator so far
    equalizer,  \* the Equalizer constructed last: <<>> or <<record>>
    file,       \* the lines of the resource CalculatorFiles/Assumptions
    datum       \* a Datum a client holds: <<>> or <<the object's attributes>>

vars == <<values, formulas_list, tfl, target, last, calls, equalizer, file, datum>>

\* Body applied to the value of an expression, which is computed once
With(value, Body(_)) == CHOOSE result \in {Body(v) : v \in {value}} : TRUE

(***************************************************************************)
(* Units (pint).  Two units of length and one of time.                     *)
(***************************************************************************)
Units == {"m", "dam", "s"}

Dimension(u) == IF u \in {"m", "dam"} THEN "length" ELSE "time"

\* pint: 1 dam = 10 m
Factor(u) == IF u = "dam" THEN 10 ELSE 1

BaseUnit(u) == IF Dimension(u) = "length" THEN "m" ELSE "s"

is_compatible_with(u1, u2) == Dimension(u1) = Dimension(u2)

Datum(variable, value, units) ==
    [variable |-> variable, magnitude |-> value, units |-> units]

\* Datum.quantity.to_base_units(): the magnitude in base units
to_base_units(d) == d.magnitude * Factor(d.units)

\* Datum.convertable
convertable(d, units) == is_compatible_with(d.units, units)

\* a faulty variant of convert: the Datum comes back as it is
convert_as_is(d, units) == d

\* Datum.convert: a new Datum in the new units, same variable
convert(d, units) ==
    Datum(d.variable, (d.magnitude * Factor(d.units)) \div Factor(units), units)

\* Datum._get_decimals: digits after the point of str(float(value))
\* (is_int: the magnitude is a Python int, as in Datum(var, 0, units))
_get_decimals_raises(value, is_int) == (~is_int) /\ value = 0

_get_decimals(value) ==
    IF value % 100 = 0 THEN 1
    ELSE IF value % 10 = 0 THEN 2
    ELSE 3

\* a faulty variant of round: the value comes back as it is
round_none(value, n) == value

\* Python's round(x, n) on a magnitude in thousandths (ties to even)
round(value, n) ==
    IF n >= 3 THEN value
    ELSE LET step == IF n = 2 THEN 10 ELSE IF n = 1 THEN 100 ELSE 1000
             lo   == (value \div step) * step
             rem  == value - lo
         IN  IF 2 * rem < step THEN lo
             ELSE IF 2 * rem > step THEN lo + step
             ELSE IF (lo \div step) % 2 = 0 THEN lo ELSE lo + step

(***************************************************************************)
(* The resources read at construction.                                     *)
(*   units_and_names.txt: <symbol>:<name>:<units>:<default value>          *)
(*   formulas.txt:        one expression per line, equal to zero           *)
(***************************************************************************)
None == <<>>

units_and_names ==
    << [symbol |-> "a", name |-> "na", units |-> "m", default_value |-> None],
       [symbol |-> "b", name |-> "nb", units |-> "m", default_value |-> <<3000>>],
       [symbol |-> "c", name |-> "nc", units |-> "m", default_value |-> None],
       [symbol |-> "d", name |-> "nd", units |-> "m", default_value |-> None] >>

\* QuantityCalculator.var_symbols: tuple(self._symbols.values())
var_symbols == [i \in 1..Len(units_and_names) |-> units_and_names[i].symbol]

Symbols == {var_symbols[i] : i \in 1..Len(var_symbols)}

\* QuantityCalculator._read_units_and_symbols: the base units of each symbol
default_units ==
    [s \in {units_and_names[i].symbol : i \in 1..Len(units_and_names)} |->
        BaseUnit((CHOOSE r \in {units_and_names[i] : i \in 1..Len(units_and_names)} :
                     r.symbol = s).units)]

\* QuantityCalculator._read_default_values
RECURSIVE _read_default_values_from(_)
_read_default_values_from(i) ==
    IF i > Len(units_and_names) THEN <<>>
    ELSE LET line == units_and_names[i]
         IN  IF line.default_value = None
             THEN _read_default_values_from(i + 1)
             ELSE <<Datum(line.symbol, line.default_value[1], line.units)>>
                  \o _read_default_values_from(i + 1)

_read_default_values == _read_default_values_from(1)

\* A formula  SUM coef[v]*v + const  (= 0), or the product of a symbol and
\* such a sum (times is the symbol, "" when there is none)
Linear(coef, const) == [coef |-> coef, const |-> const, times |-> ""]

Product(symbol, sum) == [sum EXCEPT !.times = symbol]

NoCoef == [s \in Symbols |-> 0]

\* _read_formulas on a formulas.txt that holds
\*     a - b - 1      b - c - 1      c - d - 1
_read_formulas ==
    << Linear([NoCoef EXCEPT !["a"] = 1, !["b"] = -1], -1000),
       Linear([NoCoef EXCEPT !["b"] = 1, !["c"] = -1], -1000),
       Linear([NoCoef EXCEPT !["c"] = 1, !["d"] = -1], -1000) >>

\* _read_formulas on a formulas.txt that holds
\*     a - b - 1      b - c - 1      d*(d - c)
_read_formulas_product ==
    << Linear([NoCoef EXCEPT !["a"] = 1, !["b"] = -1], -1000),
       Linear([NoCoef EXCEPT !["b"] = 1, !["c"] = -1], -1000),
       Product("d", Linear([NoCoef EXCEPT !["d"] = 1, !["c"] = -1], 0)) >>

\* the formula banks a calculator is constructed on
FormulaBanks == {_read_formulas, _read_formulas_product}

(***************************************************************************)
(* sympy on these expressions.                                             *)
(***************************************************************************)
Coef(expr, v) == IF v \in DOMAIN expr.coef THEN expr.coef[v] ELSE 0

\* the substitution into the sum: the symbol is replaced, the constant folded
subs_sum(expr, v, number) ==
    IF Coef(expr, v) = 0 THEN expr
    ELSE [expr EXCEPT !.coef = [expr.coef EXCEPT ![v] = 0],
                      !.const = expr.const + expr.coef[v] * number]

\* expr.subs(v, number).  A product whose symbol is replaced becomes
\* number*(sum): 0 when the number is 0, else a sum with the same roots (the
\* constant factor is left out)
subs(expr, v, number) ==
    IF expr.times = v
    THEN IF number = 0 THEN Linear([s \in DOMAIN expr.coef |-> 0], 0)
         ELSE subs_sum([expr EXCEPT !.times = ""], v, number)
    ELSE subs_sum(expr, v, number)

free_symbols(expr) ==
    {v \in DOMAIN expr.coef : expr.coef[v] # 0}
        \cup (IF expr.times = "" THEN {} ELSE {expr.times})

\* sp.solve(eq, target) of a sum: a solution is <<"number", x>> or <<"expr">>
\* (free symbols remain)
sp_solve_sum(eq, v) ==
    IF Coef(eq, v) = 0 THEN <<>>
    ELSE IF free_symbols(eq) # {v} THEN << <<"expr">> >>
    ELSE << <<"number", (0 - eq.const) \div eq.coef[v]>> >>

\* sp.solve(eq, target): the list of the distinct solutions, numbers in
\* ascending order.  v*(sum) has the solution 0 and the solutions of the sum
sp_solve(eq, v) ==
    IF eq.times = ""
    THEN sp_solve_sum(eq, v)
    ELSE IF eq.times = v
    THEN LET rest == sp_solve_sum([eq EXCEPT !.times = ""], v)
         IN  IF rest = <<>> THEN << <<"number", 0>> >>
             ELSE IF rest[1][1] = "expr" THEN << <<"number", 0>>, <<"expr">> >>
             ELSE IF rest[1][2] = 0 THEN << <<"number", 0>> >>
             ELSE IF rest[1][2] < 0 THEN << rest[1], <<"number", 0>> >>
             ELSE << <<"number", 0>>, rest[1] >>
    ELSE IF Coef(eq, v) = 0 THEN <<>> ELSE << <<"expr">> >>

is_number(answer) == answer[1] = "number"

(***************************************************************************)
(* QuantityCalculator.  Every operator takes the state it reads (the list  *)
(* of values, the working formulas) and returns what the method leaves:    *)
(* exc is the exception raised ("" when the method returns).               *)
(***************************************************************************)
has_value(vals, name) == \E i \in 1..Len(vals) : vals[i].variable = name

\* names.index(var): the first position of the variable
index(vals, name) == CHOOSE i \in 1..Len(vals) :
    /\ vals[i].variable = name
    /\ \A j \in 1..(i - 1) : vals[j].variable # name

\* a faulty variant of list.pop(i): the head goes, whatever i is
pop_first(vals, i) == Tail(vals)

pop(vals, i) == SubSeq(vals, 1, i - 1) \o SubSeq(vals, i + 1, Len(vals))

\* faulty variants of the checks of write_value: one drops the units check,
\* one the check for a present value, one the check against the registry
write_value_exc_no_units(vals, d) ==
    IF d.variable \notin Symbols THEN "UnknownVariableException"
    ELSE IF \E i \in 1..Len(vals) : vals[i].variable = d.variable
         THEN "VariableHasValue"
    ELSE ""

write_value_exc_no_has_value(vals, d) ==
    IF d.variable \notin Symbols THEN "UnknownVariableException"
    ELSE IF Dimension(d.units) # Dimension(default_units[d.variable])
         THEN "IncompatibleUnits"
    ELSE ""

write_value_exc_no_registry(vals, d) ==
    IF \E i \in 1..Len(vals) : vals[i].variable = d.variable
    THEN "VariableHasValue"
    ELSE IF d.variable \in Symbols
            /\ Dimension(d.units) # Dimension(default_units[d.variable])
         THEN "IncompatibleUnits"
    ELSE ""

write_value_exc(vals, d) ==
    IF d.variable \notin Symbols THEN "UnknownVariableException"
    ELSE IF has_value(vals, d.variable) THEN "VariableHasValue"
    ELSE IF ~is_compatible_with(d.units, default_units[d.variable])
         THEN "IncompatibleUnits"
    ELSE ""

write_value(vals, d) ==
    LET exc == write_value_exc(vals, d)
    IN  [exc |-> exc, values |-> IF exc = "" THEN Append(vals, d) ELSE vals]

\* read_value(d, units): units is "default" or a unit
read_value(vals, name, units) ==
    IF ~has_value(vals, name)
    THEN [exc |-> "ValueNotFoundException", ret |-> None]
    ELSE LET dat == vals[index(vals, name)]
         IN  IF units = "default" THEN [exc |-> "", ret |-> <<dat>>]
             ELSE IF ~is_compatible_with(dat.units, units)
                  THEN [exc |-> "DimensionalityError", ret |-> None]
             ELSE [exc |-> "", ret |-> <<convert(dat, units)>>]

erase_value(vals, var) ==
    IF has_value(vals, var)
    THEN [exc |-> "", values |-> pop(vals, index(vals, var))]
    ELSE [exc |-> "ValueNotFoundException", values |-> vals]

\* a faulty variant of clear: the working copy is left as it is
QC_clear_values_only(vals, formulas) ==
    [values |-> _read_default_values, tfl |-> formulas]

\* QuantityCalculator.clear: the values are read again from the resource and
\* the working copy is a fresh copy of the formulas
QC_clear(vals, formulas) ==
    [values |-> _read_default_values, tfl |-> formulas_list]

\* _push: every value, in base units, is substituted into every working
\* formula
push_one(formulas, var) ==
    [i \in 1..Len(formulas) |-> subs(formulas[i], var.variable, to_base_units(var))]

RECURSIVE push_from(_, _, _)
push_from(vals, formulas, i) ==
    IF i > Len(vals) THEN formulas
    ELSE With(push_one(formulas, vals[i]),
              LAMBDA pushed : push_from(vals, pushed, i + 1))

_push(vals, formulas) == push_from(vals, formulas, 1)

\* the answers of one equation: Datum(solve_for, float(solution), units)
answers_of(solutions, solve_for) ==
    [i \in 1..Len(solutions) |->
        Datum(solve_for, solutions[i][2], default_units[solve_for])]

accepts(solutions) ==
    Len(solutions) > 0 /\ \A i \in 1..Len(solutions) : is_number(solutions[i])

\* _solve_from_strings: the first equation whose solutions are all numbers
\* answers; only then is the working copy reset.  found = FALSE is the
\* method returning None.
RECURSIVE solve_from(_, _, _)
solve_from(pushed, solve_for, i) ==
    IF i > Len(pushed)
    THEN [found |-> FALSE, answers |-> <<>>, tfl |-> pushed]
    ELSE LET solutions == sp_solve(pushed[i], solve_for)
         IN  IF accepts(solutions)
             THEN [found |-> TRUE, answers |-> answers_of(solutions, solve_for),
                   tfl |-> formulas_list]
             ELSE solve_from(pushed, solve_for, i + 1)

_solve_from_strings(vals, formulas, solve_for) ==
    With(_push(vals, formulas), LAMBDA pushed : solve_from(pushed, solve_for, 1))

\* QuantityCalculator.solve(solve_for, answer_units, round_to):
\* answer_units is "default" or a unit, round_to is None or <<digits>>
finish_solution(solution, answer_units, round_to) ==
    LET converted == IF answer_units = "default" THEN solution
                     ELSE convert(solution, answer_units)
    IN  IF round_to = None THEN converted
        ELSE Datum(converted.variable, round(converted.magnitude, round_to[1]),
                   converted.units)

\* a faulty variant of solve: without a solution the empty list is returned
QC_solve_returns_empty(vals, formulas, solve_for, answer_units, round_to) ==
    With(_solve_from_strings(vals, formulas, solve_for), LAMBDA r :
        [exc |-> "",
         solutions |-> [i \in 1..Len(r.answers) |->
                           finish_solution(r.answers[i], answer_units, round_to)],
         tfl |-> r.tfl])

QC_solve(vals, formulas, solve_for, answer_units, round_to) ==
    With(_solve_from_strings(vals, formulas, solve_for), LAMBDA r :
        IF ~r.found \/ Len(r.answers) = 0
        THEN [exc |-> "SolutionNotFound", solutions |-> <<>>, tfl |-> r.tfl]
        ELSE IF answer_units # "default"
                /\ \E i \in 1..Len(r.answers) :
                       ~is_compatible_with(r.answers[i].units, answer_units)
        THEN [exc |-> "DimensionalityError", solutions |-> <<>>, tfl |-> r.tfl]
        ELSE [exc |-> "",
              solutions |-> [i \in 1..Len(r.answers) |->
                                finish_solution(r.answers[i], answer_units, round_to)],
              tfl |-> r.tfl])

(***************************************************************************)
(* IterativeCalculator.                                                    *)
(***************************************************************************)
\* the target as kept in self._target; is_int: the magnitude is a Python
\* int (the placeholder Datum(var, 0, units) of a "compute" line)
Target(d, is_int) ==
    [variable |-> d.variable, magnitude |-> d.magnitude, units |-> d.units,
     is_int |-> is_int]

\* Assumption: symbol, _variables (preset), _to_compute, _assume (temporary)
Assumption(symbol, variables, compute, assume) ==
    [symbol |-> symbol, variables |-> variables, compute |-> compute,
     assume |-> assume]

\* the bundles _read_assumptions yields from CalculatorFiles/Assumptions
_read_assumptions ==
    << Assumption("S1", <<Datum("a", 4000, "m")>>, <<Datum("c", 0, "m")>>,
                  <<Datum("d", 1000, "m")>>),
       Assumption("S2", <<>>, <<Datum("a", 0, "dam")>>, <<>>) >>

\* IterativeCalculator.write (one Datum)
IC_write(vals, d) ==
    IF d.variable \notin Symbols
    THEN [exc |-> "UnknownVariableException", values |-> vals]
    ELSE write_value(vals, d)

RECURSIVE write_all(_, _, _)
write_all(vals, data, i) ==
    IF i > Len(data) THEN [exc |-> "", values |-> vals]
    ELSE With(IC_write(vals, data[i]), LAMBDA w :
             IF w.exc # "" THEN w ELSE write_all(w.values, data, i + 1))

\* IterativeCalculator.clear
IC_clear(vals, var) == erase_value(vals, var)

\* a faulty variant of clear_all: nothing is cleared
clear_all_none(vals, but) == vals

\* IterativeCalculator.clear_all(but=...)
RECURSIVE clear_all_from(_, _, _)
clear_all_from(vals, but, i) ==
    IF i > Len(var_symbols) THEN vals
    ELSE IF var_symbols[i] \notin but /\ has_value(vals, var_symbols[i])
         THEN With(IC_clear(vals, var_symbols[i]).values,
                   LAMBDA cleared : clear_all_from(cleared, but, i + 1))
         ELSE clear_all_from(vals, but, i + 1)

clear_all(vals, but) == clear_all_from(vals, but, 1)

\* _compute_all_possible_vars: one round.  interres.append(*res) takes a
\* single solution; any exception (no solution, several solutions) skips
\* the variable.
RECURSIVE compute_from(_, _, _, _)
compute_from(vals, formulas, i, interres) ==
    IF i > Len(var_symbols) THEN [interres |-> interres, tfl |-> formulas]
    ELSE IF has_value(vals, var_symbols[i])
         THEN compute_from(vals, formulas, i + 1, interres)
    ELSE With(QC_solve(vals, formulas, var_symbols[i], "default", None), LAMBDA res :
             IF res.exc = "" /\ Len(res.solutions) = 1
             THEN With(Append(interres, res.solutions[1]), LAMBDA appended :
                      compute_from(vals, res.tfl, i + 1, appended))
             ELSE compute_from(vals, res.tfl, i + 1, interres))

_compute_all_possible_vars(vals, formulas) == compute_from(vals, formulas, 1, <<>>)

variables_of(data) == {data[i].variable : i \in 1..Len(data)}

\* a faulty variant of _iterate: the loop ends after its first round
_iterate_once(vals, formulas, tgt, stop_at_target, rounds) ==
    With(_compute_all_possible_vars(vals, formulas), LAMBDA c :
    With(write_all(vals, c.interres, 1), LAMBDA w :
        [exc |-> w.exc, values |-> w.values, tfl |-> c.tfl,
         rounds |-> rounds + 1, end |-> "Fixpoint",
         produced |-> <<variables_of(c.interres)>>]))

\* _iterate, driven by the for loop of solve: rounds are counted and the
\* variables each round produced are listed; the loop ends at "Fixpoint" (a
\* round found nothing) or "TargetReached" (break)
RECURSIVE _iterate(_, _, _, _, _)
_iterate(vals, formulas, tgt, stop_at_target, rounds) ==
    With(_compute_all_possible_vars(vals, formulas), LAMBDA c :
    With(write_all(vals, c.interres, 1), LAMBDA w :
        LET r == [exc |-> w.exc, values |-> w.values, tfl |-> c.tfl,
                  rounds |-> rounds + 1, end |-> "Raised",
                  produced |-> <<variables_of(c.interres)>>]
        IN  IF w.exc # "" THEN r
            ELSE IF c.interres = <<>> THEN [r EXCEPT !.end = "Fixpoint"]
            ELSE IF tgt = None THEN [r EXCEPT !.exc = "AttributeError"]
            ELSE IF tgt[1].variable \in variables_of(c.interres) /\ stop_at_target
                 THEN [r EXCEPT !.end = "TargetReached"]
            ELSE With(_iterate(w.values, c.tfl, tgt, stop_at_target, rounds + 1),
                      LAMBDA rest : [rest EXCEPT !.produced = r.produced \o @])))

\* IterativeCalculator.solve
IC_solve(vals, formulas, tgt, stop_at_target, alter_target) ==
    With(_iterate(vals, formulas, tgt, stop_at_target, 0), LAMBDA it :
        LET r == [exc |-> it.exc, values |-> it.values, tfl |-> it.tfl,
                  target |-> tgt, ret |-> None, rounds |-> it.rounds,
                  end |-> it.end, produced |-> it.produced]
        IN  IF it.exc # "" THEN r
            ELSE IF tgt = None THEN [r EXCEPT !.exc = "AttributeError"]
            ELSE IF ~has_value(it.values, tgt[1].variable)
                 THEN [r EXCEPT !.exc = "SolutionNotFound"]
            ELSE With(read_value(it.values, tgt[1].variable, tgt[1].units),
                      LAMBDA result :
                     IF result.exc # "" THEN [r EXCEPT !.exc = result.exc]
                     ELSE IF _get_decimals_raises(tgt[1].magnitude, tgt[1].is_int)
                          THEN [r EXCEPT !.exc = "ValueError"]
                     ELSE LET answer == Datum(result.ret[1].variable,
                                              round(result.ret[1].magnitude,
                                                    _get_decimals(tgt[1].magnitude)),
                                              result.ret[1].units)
                          IN  [r EXCEPT !.ret = <<answer>>,
                                        !.target = IF alter_target
                                                   THEN <<Target(answer, FALSE)>>
                                                   ELSE tgt]))

\* _apply_assumption: the loop over assumption.compute
RECURSIVE apply_compute(_, _, _, _, _)
apply_compute(vals, formulas, tgt, assumption, i) ==
    IF i > Len(assumption.compute)
    THEN [exc |-> "", values |-> vals, tfl |-> formulas, target |-> tgt]
    ELSE With(IC_solve(vals, formulas, <<Target(assumption.compute[i], TRUE)>>,
                       TRUE, TRUE), LAMBDA s :
             LET var == assumption.compute[i]
                 r   == [exc |-> s.exc, values |-> s.values, tfl |-> s.tfl,
                         target |-> s.target]
             IN  IF s.exc # "" THEN r
                 ELSE IF ~has_value(s.values, var.variable)
                      THEN [r EXCEPT !.exc = "AssumptionFailed"]
                 ELSE apply_compute(s.values, s.tfl, s.target, assumption, i + 1))

_apply_assumption(vals, formulas, tgt, assumption) ==
    LET keep_variables == variables_of(assumption.variables)
                              \cup variables_of(assumption.compute)
    IN  With(write_all(vals, assumption.assume, 1), LAMBDA w1 :
            IF w1.exc # ""
            THEN [exc |-> w1.exc, values |-> w1.values, tfl |-> formulas,
                  target |-> tgt]
            ELSE With(write_all(w1.values, assumption.variables, 1), LAMBDA w2 :
                IF w2.exc # ""
                THEN [exc |-> w2.exc, values |-> w2.values, tfl |-> formulas,
                      target |-> tgt]
                ELSE With(apply_compute(w2.values, formulas, tgt, assumption, 1),
                          LAMBDA c :
                    IF c.exc # "" THEN c
                    ELSE [c EXCEPT !.values = clear_all(c.values, keep_variables)])))

\* the bundle assume picks for the name at position i of its arguments
picked(read_assumptions, names, i) == read_assumptions[i]

\* IterativeCalculator.assume(*names); applied lists the symbols of the
\* bundles handed to _apply_assumption
RECURSIVE assume_from(_, _, _, _, _, _)
assume_from(vals, formulas, tgt, names, i, applied) ==
    LET read_assumptions == _read_assumptions
        assumption_names == {read_assumptions[j].symbol :
                                 j \in 1..Len(read_assumptions)}
        r == [exc |-> "", values |-> vals, tfl |-> formulas, target |-> tgt,
              applied |-> applied]
    IN  IF i > Len(names) THEN r
        ELSE IF names[i] \notin assumption_names
             THEN assume_from(vals, formulas, tgt, names, i + 1, applied)
        ELSE IF i > Len(read_assumptions) THEN [r EXCEPT !.exc = "IndexError"]
        ELSE With(_apply_assumption(vals, formulas, tgt,
                                    picked(read_assumptions, names, i)), LAMBDA a :
                 LET now == Append(applied, picked(read_assumptions, names, i).symbol)
                 IN  IF a.exc # ""
                     THEN [exc |-> a.exc, values |-> a.values, tfl |-> a.tfl,
                           target |-> a.target, applied |-> now]
                     ELSE assume_from(a.values, a.tfl, a.target, names, i + 1, now))

IC_assume(vals, formulas, tgt, names) ==
    assume_from(vals, formulas, tgt, names, 1, <<>>)

\* IterativeCalculator.scale; the float factor is the fraction
\* factor[1] / factor[2]
IC_scale(vals, var, factor) ==
    IF var \notin Symbols
    THEN [exc |-> "UnknownVariableException", values |-> vals, ret |-> None]
    ELSE LET q == read_value(vals, var, "default")
         IN  IF q.exc # "" THEN [exc |-> q.exc, values |-> vals, ret |-> None]
             ELSE LET d == Datum(q.ret[1].variable,
                                 (factor[1] * q.ret[1].magnitude) \div factor[2],
                                 q.ret[1].units)
                      w == write_value(erase_value(vals, var).values, d)
                  IN  [exc |-> w.exc, values |-> w.values, ret |-> <<d>>]

\* IterativeCalculator.add
IC_add(vals, var, value, allow_negatives) ==
    IF var \notin Symbols
    THEN [exc |-> "UnknownVariableException", values |-> vals, ret |-> None]
    ELSE LET q == read_value(vals, var, "default")
         IN  IF q.exc # "" THEN [exc |-> q.exc, values |-> vals, ret |-> None]
             ELSE LET d == Datum(q.ret[1].variable, q.ret[1].magnitude + value,
                                 q.ret[1].units)
                  IN  IF ~allow_negatives /\ d.magnitude < 0
                      THEN [exc |-> "NegativesNotAllowed", values |-> vals,
                            ret |-> None]
                      ELSE LET w == write_value(erase_value(vals, var).values, d)
                           IN  [exc |-> w.exc, values |-> w.values, ret |-> <<d>>]

\* IterativeCalculator.sub
IC_sub(vals, var, value, allow_negatives) ==
    IC_add(vals, var, 0 - value, allow_negatives)

\* IterativeCalculator.div
IC_div(vals, var, value) ==
    IF value = 0
    THEN [exc |-> "ZeroDivisionError", values |-> vals, ret |-> None]
    ELSE IC_scale(vals, var, <<1, value>>)

(***************************************************************************)
(* The lines of the resource CalculatorFiles/Assumptions.  A line is a     *)
(* record of its kind (the branch of the reader its first characters       *)
(* select) and its content:                                                *)
(*   "comment"   #...                  "end"      !                        *)
(*   "header"    !<symbol>: <name>     "variable" variable <s>:<v>:<u>     *)
(*   "compute"   compute <s>::<u>      "assume"   assume <s>:<v>:<u>       *)
(*   "alnum"     any other line of letters and digits only                 *)
(*   "other"     any other line                                            *)
(* The content of a header is its symbol.  The content of a variable,      *)
(* compute or assume line is the list of the words (separated by spaces)   *)
(* that follow the keyword, each word the list of its fields (separated by *)
(* colons); a field is a string.                                           *)
(***************************************************************************)
Line(kind, content) == [kind |-> kind, content |-> content]

\* the magnitudes written in the resource, and how str() writes them
FloatTexts ==
    [value \in {0, 1000, 4000} |->
        CASE value = 0 -> "0.0" [] value = 1000 -> "1.0" [] OTHER -> "4.0"]

\* f'{value}' of a float magnitude
str_float(value) == FloatTexts[value]

\* float(text): <<the number>>, or <<>> where float raises ValueError
float(text) ==
    IF \E value \in DOMAIN FloatTexts : FloatTexts[value] = text
    THEN <<CHOOSE value \in DOMAIN FloatTexts : FloatTexts[value] = text>>
    ELSE <<>>

\* str(units) of a pint Unit: the long name
str_units(units) ==
    CASE units = "m" -> "meter" [] units = "dam" -> "decameter" [] OTHER -> "second"

\* Unit(text): pint parses the long and the short names
Unit(text) ==
    CASE text \in {"meter", "m"} -> "m"
      [] text \in {"decameter", "dam"} -> "dam"
      [] OTHER -> "s"

\* the resource CalculatorFiles/Assumptions of the model
Assumptions ==
    << Line("header", "S1"),
       Line("variable", << <<"a", "4.0", "m">> >>),
       Line("compute", << <<"c", "", "m">> >>),
       Line("assume", << <<"d", "1.0", "m">> >>),
       Line("end", ""),
       Line("header", "S2"),
       Line("compute", << <<"a", "", "dam">> >>),
       Line("end", "") >>

(***************************************************************************)
(* The state machine of the calculator: one action per public method.      *)
(***************************************************************************)
\* the number of calls a client makes on one calculator
MaxCalls == 4

\* the arguments the calls are made with
WriteData ==
    { Datum("a", 4000, "m"), Datum("a", 1000, "dam"), Datum("c", 5000, "m"),
      Datum("c", 1234, "m"), Datum("d", 1000, "s"), Datum("zz", 1000, "m") }

TargetData ==
    { Datum("a", 10, "m"), Datum("d", 100, "dam"), Datum("d", 100, "m"),
      Datum("c", 10, "s"), Datum("c", 0, "m") }

AssumeNames ==
    { <<"S1">>, <<"S2">>, <<"zz">>, <<"zz", "S1">>, <<"zz", "S2">>,
      <<"S1", "S2">>, <<"zz", "zz", "S1">> }

Call(op, args, exc, ret) ==
    [op |-> op, args |-> args, exc |-> exc, ret |-> ret, rounds |-> 0,
     end |-> "", produced |-> <<>>, applied |-> <<>>]

Init ==
    /\ values = _read_default_values
    /\ formulas_list \in FormulaBanks
    /\ tfl = formulas_list
    /\ target = None
    /\ last = Call("init", <<>>, "", None)
    /\ calls = 0
    /\ equalizer = None
    /\ file = Assumptions
    /\ datum = None

\* the client has calls left
MayCall == calls < MaxCalls

\* one more call on the calculator
Called ==
    /\ calls' = calls + 1
    /\ UNCHANGED <<formulas_list, equalizer, file, datum>>

\* QuantityCalculator.write_value(d)
WriteValue ==
    /\ MayCall
    /\ \E d \in WriteData :
           \E w \in {write_value(values, d)} :
               /\ Called
               /\ values' = w.values
               /\ last' = Call("write_value", <<d>>, w.exc, None)
               /\ UNCHANGED <<tfl, target>>

\* IterativeCalculator.write(d)
Write ==
    /\ MayCall
    /\ \E d \in {Datum("a", 4000, "m"), Datum("zz", 1000, "m")} :
           \E w \in {IC_write(values, d)} :
               /\ Called
               /\ values' = w.values
               /\ last' = Call("write", <<d>>, w.exc, None)
               /\ UNCHANGED <<tfl, target>>

\* QuantityCalculator.read_value(name, units)
ReadValue ==
    /\ MayCall
    /\ \E name \in {"a", "b"}, units \in {"default", "dam", "s"} :
           \E r \in {read_value(values, name, units)} :
               /\ Called
               /\ last' = Call("read_value", <<name, units>>, r.exc, r.ret)
               /\ UNCHANGED <<values, tfl, target>>

\* QuantityCalculator.erase_value(var)
EraseValue ==
    /\ MayCall
    /\ \E var \in Symbols :
           \E e \in {erase_value(values, var)} :
               /\ Called
               /\ values' = e.values
               /\ last' = Call("erase_value", <<var>>, e.exc, None)
               /\ UNCHANGED <<tfl, target>>

\* IterativeCalculator.clear(var)
Clear ==
    /\ MayCall
    /\ \E var \in {"b", "d"} :
           \E e \in {IC_clear(values, var)} :
               /\ Called
               /\ values' = e.values
               /\ last' = Call("clear", <<var>>, e.exc, None)
               /\ UNCHANGED <<tfl, target>>

\* IterativeCalculator.clear_all(but=...)
ClearAll ==
    /\ MayCall
    /\ \E but \in {{}, {"b"}} :
           /\ Called
           /\ values' = clear_all(values, but)
           /\ last' = Call("clear_all", <<but>>, "", None)
           /\ UNCHANGED <<tfl, target>>

\* QuantityCalculator.clear()
QCClear ==
    /\ MayCall
    /\ \E r \in {QC_clear(values, tfl)} :
           /\ Called
           /\ values' = r.values
           /\ tfl' = r.tfl
           /\ last' = Call("qc_clear", <<>>, "", None)
           /\ UNCHANGED target

\* QuantityCalculator.solve(solve_for, answer_units, round_to)
QCSolve ==
    /\ MayCall
    /\ \E solve_for \in {"a", "b", "d"}, answer_units \in {"default", "dam"} :
           \E r \in {QC_solve(values, tfl, solve_for, answer_units, <<2>>)} :
               /\ Called
               /\ tfl' = r.tfl
               /\ last' = Call("qc_solve", <<solve_for, answer_units>>, r.exc,
                               r.solutions)
               /\ UNCHANGED <<values, target>>

\* IterativeCalculator.target = d
SetTarget ==
    /\ MayCall
    /\ \E d \in TargetData :
           /\ Called
           /\ target' = <<Target(d, FALSE)>>
           /\ last' = Call("target", <<d>>, "", None)
           /\ UNCHANGED <<values, tfl>>

\* IterativeCalculator.solve(stop_at_target, alter_target)
Solve ==
    /\ MayCall
    /\ \E stop_at_target \in BOOLEAN, alter_target \in BOOLEAN :
           \E r \in {IC_solve(values, tfl, target, stop_at_target, alter_target)} :
               /\ Called
               /\ values' = r.values
               /\ tfl' = r.tfl
               /\ target' = r.target
               /\ last' = [Call("solve", <<stop_at_target, alter_target>>, r.exc, r.ret)
                              EXCEPT !.rounds = r.rounds, !.end = r.end,
                                     !.produced = r.produced]

\* IterativeCalculator.assume(*names)
Assume ==
    /\ MayCall
    /\ \E names \in AssumeNames :
           \E r \in {IC_assume(values, tfl, target, names)} :
               /\ Called
               /\ values' = r.values
               /\ tfl' = r.tfl
               /\ target' = r.target
               /\ last' = [Call("assume", names, r.exc, None)
                              EXCEPT !.applied = r.applied]

\* IterativeCalculator.scale(var, factor)
Scale ==
    /\ MayCall
    /\ \E var \in {"b", "zz"}, factor \in {2, -1} :
           \E r \in {IC_scale(values, var, <<factor, 1>>)} :
               /\ Called
               /\ values' = r.values
               /\ last' = Call("scale", <<var, factor>>, r.exc, r.ret)
               /\ UNCHANGED <<tfl, target>>

\* IterativeCalculator.add(var, value, allow_negatives)
Add ==
    /\ MayCall
    /\ \E var \in {"b"}, value \in {1000, -4000}, allow_negatives \in BOOLEAN :
           \E r \in {IC_add(values, var, value, allow_negatives)} :
               /\ Called
               /\ values' = r.values
               /\ last' = Call("add", <<var, value, allow_negatives>>, r.exc, r.ret)
               /\ UNCHANGED <<tfl, target>>

\* IterativeCalculator.sub(var, value, allow_negatives)
Sub ==
    /\ MayCall
    /\ \E var \in {"b"}, value \in {4000}, allow_negatives \in BOOLEAN :
           \E r \in {IC_sub(values, var, value, allow_negatives)} :
               /\ Called
               /\ values' = r.values
               /\ last' = Call("sub", <<var, value, allow_negatives>>, r.exc, r.ret)
               /\ UNCHANGED <<tfl, target>>

\* IterativeCalculator.div(var, value): taken where the quotient is a whole
\* number of thousandths
Div ==
    /\ MayCall
    /\ \E var \in {"b"}, value \in {0, 2} :
           \E r \in {IC_div(values, var, value)} :
               /\ Called
               /\ \A i \in 1..Len(values) :
                      (values[i].variable = var /\ value # 0)
                          => values[i].magnitude % value = 0
               /\ values' = r.values
               /\ last' = Call("div", <<var, value>>, r.exc, r.ret)
               /\ UNCHANGED <<tfl, target>>

Next ==
    \/ WriteValue \/ Write \/ ReadValue \/ EraseValue \/ Clear \/ ClearAll
    \/ QCClear \/ QCSolve \/ SetTarget \/ Solve \/ Assume
    \/ Scale \/ Add \/ Sub \/ Div

Spec == Init /\ [][Next]_vars

(***************************************************************************)
(* Properties of the calculator.  A property of a call is stated on the    *)
(* step of the call: unprimed variables are the state before the call,     *)
(* last' is the record of the call.                                        *)
(***************************************************************************)
known(vals) == {vals[i].variable : i \in 1..Len(vals)}

quantity_of(vals, name) == CHOOSE d \in {vals[i] : i \in 1..Len(vals)} : d.variable = name

is_write(call) == call.op \in {"write", "write_value"}
is_erase(call) == call.op \in {"erase_value", "clear"}

\* C4: write(q) raises UnknownVariable for an unregistered name, else
\* ValueAlreadyPresent (VariableHasValue) for a name already known, else
\* IncompatibleUnits for a unit not convertible to the default unit, each
\* leaving the known values as they were; otherwise q becomes the known
\* quantity of its name and nothing else changes.
C4_Write ==
    [][is_write(last') =>
        LET q == last'.args[1]
        IN  IF q.variable \notin Symbols
            THEN last'.exc = "UnknownVariableException" /\ values' = values
            ELSE IF q.variable \in known(values)
            THEN last'.exc = "VariableHasValue" /\ values' = values
            ELSE IF Dimension(q.units) # Dimension(default_units[q.variable])
            THEN last'.exc = "IncompatibleUnits" /\ values' = values
            ELSE /\ last'.exc = ""
                 /\ known(values') = known(values) \cup {q.variable}
                 /\ quantity_of(values', q.variable) = q
                 /\ \A v \in known(values) :
                        quantity_of(values', v) = quantity_of(values, v)
                 /\ Len(values') = Len(values) + 1]_vars

C4_Witness ==
    /\ last.op = "write_value"
    /\ last.exc = "IncompatibleUnits"

\* C5: the known values hold at most one Quantity per variable name.
C5_OnePerName ==
    \A i, j \in 1..Len(values) :
        values[i].variable = values[j].variable => i = j

C5_Witness ==
    /\ Len(values) = Cardinality(Symbols)
    /\ last.op = "add"
    /\ last.exc = ""

\* C6: every variable that has a known Quantity is declared in the
\* registry (is a key of default_units).
C6_KnownDeclared ==
    \A i \in 1..Len(values) : values[i].variable \in DOMAIN default_units

C6_Witness ==
    /\ is_write(last)
    /\ last.args[1].variable \notin DOMAIN default_units
    /\ Len(values) > 0

\* C7: read and erase of a name with no known quantity raise ValueNotFound
\* and leave the known values as they were; erase of a known name removes
\* that name's quantity only, and a write of the name then succeeds.
C7_ReadErase ==
    [][/\ (last'.op = "read_value" /\ last'.args[1] \notin known(values)) =>
            (last'.exc = "ValueNotFoundException" /\ values' = values)
       /\ (is_erase(last') /\ last'.args[1] \notin known(values)) =>
            (last'.exc = "ValueNotFoundException" /\ values' = values)
       /\ (is_erase(last') /\ last'.args[1] \in known(values)) =>
            /\ last'.exc = ""
            /\ known(values') = known(values) \ {last'.args[1]}
            /\ Len(values') = Len(values) - 1
            /\ \A v \in known(values') :
                   quantity_of(values', v) = quantity_of(values, v)
       /\ (is_erase(last) /\ last.exc = "" /\ is_write(last')
              /\ last'.args[1].variable = last.args[1]
              /\ Dimension(last'.args[1].units)
                     = Dimension(default_units[last.args[1]])) =>
            (last'.exc = "" /\ quantity_of(values', last.args[1]) = last'.args[1])
      ]_vars

C7_Witness ==
    /\ last.op = "erase_value"
    /\ last.exc = ""
    /\ Len(values) > 0

\* C2: solve ends, and it runs at most as many rounds as the registry
\* declares variables.
C2_Rounds ==
    last.op = "solve" => last.rounds <= Len(var_symbols)

\* the target the call started with is set
has_target == target # None

\* the unit the quantity of a name is stored in can be converted to units
stored_convertible(vals, name, units) ==
    Dimension(quantity_of(vals, name).units) = Dimension(units)

\* the magnitude is the float 0.0, whose decimals cannot be counted
float_zero(tgt) == tgt.magnitude = 0 /\ ~tgt.is_int

bundle(symbol) ==
    LET read_assumptions == _read_assumptions
    IN  read_assumptions[CHOOSE j \in 1..Len(read_assumptions) :
                             read_assumptions[j].symbol = symbol]

\* the value the formula bank yields for a variable from the registry
\* defaults with the temporaries and presets of a bundle written
computed_from(assumption, var) ==
    LET given == write_all(write_all(_read_default_values, assumption.assume, 1).values,
                           assumption.variables, 1).values
        it    == _iterate(given, formulas_list, <<Target(var, TRUE)>>, FALSE, 0)
    IN  to_base_units(quantity_of(it.values, var.variable))

\* C8: after assume has applied a bundle, every preset is known with its
\* preset value, no temporary is known, and every derived target is known
\* with the value computed from the presets and the temporaries.
C8_AfterAssume ==
    [][(last'.op = "assume" /\ last'.exc = "" /\ Len(last'.applied) = 1) =>
        LET assumption == bundle(last'.applied[1])
        IN  /\ \A i \in 1..Len(assumption.variables) :
                   /\ assumption.variables[i].variable \in known(values')
                   /\ quantity_of(values', assumption.variables[i].variable)
                          = assumption.variables[i]
            /\ \A i \in 1..Len(assumption.assume) :
                   assumption.assume[i].variable \notin known(values')
            /\ \A i \in 1..Len(assumption.compute) :
                   /\ assumption.compute[i].variable \in known(values')
                   /\ to_base_units(quantity_of(values',
                                                assumption.compute[i].variable))
                          = computed_from(assumption, assumption.compute[i])]_vars

\* the names of the call that are symbols of bundles, in call order
RECURSIVE matching(_, _)
matching(names, i) ==
    IF i > Len(names) THEN <<>>
    ELSE IF \E j \in 1..Len(_read_assumptions) : _read_assumptions[j].symbol = names[i]
         THEN <<names[i]>> \o matching(names, i + 1)
         ELSE matching(names, i + 1)

\* C9: assume applies, for each name that is the symbol of a bundle, the
\* bundle with that symbol, and nothing for the other names.
C9_AppliesNamed ==
    [][last'.op = "assume" =>
        LET wanted == matching(last'.args, 1)
        IN  /\ Len(last'.applied) <= Len(wanted)
            /\ last'.applied = SubSeq(wanted, 1, Len(last'.applied))
            /\ last'.exc = "" => last'.applied = wanted]_vars

\* C10: when assume has written the temporaries and presets of a bundle and
\* a derived target of the bundle is not obtained, the call raises
\* AssumptionFailed.
C10_AssumptionFailed ==
    [][(/\ last'.op = "assume"
        /\ Len(last'.applied) = 1
        /\ LET assumption == bundle(last'.applied[1])
           IN  /\ \A i \in 1..Len(assumption.assume) :
                      assumption.assume[i].variable \notin known(values)
               /\ \A i \in 1..Len(assumption.variables) :
                      assumption.variables[i].variable \notin known(values)
               /\ \E i \in 1..Len(assumption.compute) :
                      assumption.compute[i].variable \notin known(values'))
       => last'.exc = "AssumptionFailed"]_vars

(***************************************************************************)
(* Equalizer (Core/Tools/Equalizer.py).  A substance is a record of its    *)
(* formula and its composition (element -> index); sympy's Rational is a   *)
(* pair <<p, q>> in lowest terms with q > 0.                               *)
(***************************************************************************)
Substance(formula, composition) ==
    [formula |-> formula, composition |-> composition]

H2   == Substance("H2", [e \in {"H"} |-> 2])
O2   == Substance("O2", [e \in {"O"} |-> 2])
H2O  == Substance("H2O", [e \in {"H", "O"} |-> IF e = "H" THEN 2 ELSE 1])
H2O2 == Substance("H2O2", [e \in {"H", "O"} |-> 2])

\* the periodic table, in the order the rows of the matrix are laid out
ptable == <<"H", "O">>

Abs(n) == IF n < 0 THEN 0 - n ELSE n

RECURSIVE gcd(_, _)
gcd(m, n) == IF n = 0 THEN m ELSE gcd(n, m % n)

\* math.lcm of a sequence of positive integers
RECURSIVE lcm(_, _)
lcm(numbers, i) ==
    IF i > Len(numbers) THEN 1
    ELSE LET rest == lcm(numbers, i + 1)
         IN  (numbers[i] * rest) \div gcd(numbers[i], rest)

\* sympy.Rational(p, q)
Rational(p, q) ==
    LET g == gcd(Abs(p), Abs(q))
        n == IF q < 0 THEN 0 - p ELSE p
    IN  <<n \div g, Abs(q) \div g>>

Zero == Rational(0, 1)
One  == Rational(1, 1)

RatMul(x, y) == Rational(x[1] * y[1], x[2] * y[2])
RatSub(x, y) == Rational(x[1] * y[2] - y[1] * x[2], x[2] * y[2])
RatDiv(x, y) == Rational(x[1] * y[2], x[2] * y[1])
RatNeg(x)    == Rational(0 - x[1], x[2])

\* Equalizer._elements: the elements present in the substances
_elements(substances) ==
    LET present == UNION {DOMAIN substances[i].composition : i \in 1..Len(substances)}
    IN  SelectSeq(ptable, LAMBDA e : e \in present)

\* substance.composition.get(element)
composition_get(substance, element) ==
    IF element \in DOMAIN substance.composition
    THEN <<substance.composition[element]>> ELSE None

\* Equalizer._create_matrix: a row per element, a column per substance
_create_matrix(reagents, products) ==
    LET elements   == _elements(reagents \o products)
        substances == reagents \o products
    IN  [el_index \in 1..Len(elements) |->
            [sb_index \in 1..Len(substances) |->
                LET substance == substances[sb_index]
                    multiple  == IF \E k \in 1..Len(products) : products[k] = substance
                                 THEN -1 ELSE 1
                    count     == composition_get(substance, elements[el_index])
                IN  Rational(multiple * (IF count # None THEN count[1] ELSE 0), 1)]]

\* Matrix.rref(): the reduced row echelon form and its pivot columns
RECURSIVE rref(_, _, _, _)
rref(m, row, col, pivots) ==
    IF row > Len(m) \/ col > Len(m[1])
    THEN [matrix |-> m, pivots |-> pivots]
    ELSE LET below == {i \in row..Len(m) : m[i][col] # Zero}
         IN  IF below = {} THEN rref(m, row, col + 1, pivots)
             ELSE LET i       == CHOOSE k \in below : \A l \in below : k <= l
                      swapped == [m EXCEPT ![row] = m[i], ![i] = m[row]]
                      pivot   == [k \in 1..Len(m[1]) |->
                                     RatDiv(swapped[row][k], swapped[row][col])]
                      reduced == [j \in 1..Len(m) |->
                                     IF j = row THEN pivot
                                     ELSE [k \in 1..Len(m[1]) |->
                                              RatSub(swapped[j][k],
                                                     RatMul(swapped[j][col], pivot[k]))]]
                  IN  With(reduced, LAMBDA next :
                          rref(next, row + 1, col + 1, Append(pivots, col)))

\* Matrix.nullspace(): one basis vector per free column, 1 at the free
\* column and minus the reduced entry at each pivot column
nullspace(m) ==
    With(rref(m, 1, 1, <<>>), LAMBDA r :
        LET cols == [k \in 1..Len(m[1]) |-> k]
            free == SelectSeq(cols, LAMBDA k : \A p \in 1..Len(r.pivots) : r.pivots[p] # k)
        IN  [f \in 1..Len(free) |->
                [k \in 1..Len(m[1]) |->
                    IF k = free[f] THEN One
                    ELSE IF \E p \in 1..Len(r.pivots) : r.pivots[p] = k
                         THEN RatNeg(r.matrix[CHOOSE p \in 1..Len(r.pivots) :
                                                  r.pivots[p] = k][free[f]])
                    ELSE Zero]])

\* Equalizer._make_integers: the vector times the lcm of its denominators
_make_integers(m) ==
    LET denominators == [k \in 1..Len(m) |-> m[k][2]]
        lcm_for_d    == lcm(denominators, 1)
    IN  [k \in 1..Len(m) |-> RatMul(Rational(lcm_for_d, 1), m[k])]

\* dict.update({key: value})
update(dict, key, value) ==
    [k \in DOMAIN dict \cup {key} |-> IF k = key THEN value ELSE dict[k]]

RECURSIVE answer_from(_, _, _, _)
answer_from(answer, substance_order, i, answer_dict) ==
    IF i > Len(answer) THEN answer_dict
    ELSE answer_from(answer, substance_order, i + 1,
                     update(answer_dict, substance_order[i], answer[i][1]))

\* a faulty variant of the check of _get_coefficients: only an empty
\* nullspace raises, and the first basis vector answers otherwise
_get_coefficients_first(matrix, substance_order) ==
    With(nullspace(matrix), LAMBDA solutions :
        IF Len(solutions) = 0
        THEN [exc |-> "CannotEquateReaction", coefficients |-> <<>>]
        ELSE [exc |-> "",
              coefficients |-> answer_from(_make_integers(solutions[1]),
                                           substance_order, 1, <<>>)])

\* Equalizer._get_coefficients
_get_coefficients(matrix, substance_order) ==
    With(nullspace(matrix), LAMBDA solutions :
        IF Len(solutions) # 1
        THEN [exc |-> "CannotEquateReaction", coefficients |-> <<>>]
        ELSE [exc |-> "",
              coefficients |-> answer_from(_make_integers(solutions[1]),
                                           substance_order, 1, <<>>)])

\* Equalizer(reagents=..., products=...)
Equalizer(reagents, products) ==
    With(_create_matrix(reagents, products), LAMBDA matrix :
        LET c == _get_coefficients(matrix, reagents \o products)
        IN  [reagents |-> reagents, products |-> products, matrix |-> matrix,
             exc |-> c.exc, coefficients |-> c.coefficients])

(***************************************************************************)
(* The state machine of the Equalizer: its construction.                   *)
(***************************************************************************)
\* the number of substances on one side of a reaction
MaxSide == 2

Substances == {H2, O2, H2O, H2O2}

Sides == UNION {[1..n -> Substances] : n \in 1..MaxSide}

Equalize ==
    \E reagents \in Sides, products \in Sides :
        /\ equalizer = None
        /\ equalizer' = <<Equalizer(reagents, products)>>
        /\ UNCHANGED <<values, formulas_list, tfl, target, last, calls, file, datum>>

NextEq == Equalize

SpecEq == Init /\ [][NextEq]_vars

RECURSIVE atoms(_, _, _, _)
atoms(side, coefficients, element, i) ==
    IF i > Len(side) THEN 0
    ELSE coefficients[side[i]]
             * (IF element \in DOMAIN side[i].composition
                THEN side[i].composition[element] ELSE 0)
         + atoms(side, coefficients, element, i + 1)

\* C1: whenever the Equalizer returns coefficients, for every element of the
\* substances the sum over the reagents of coefficient x atom count equals
\* the sum over the products of coefficient x atom count.
C1_MassConservation ==
    (equalizer # None /\ equalizer[1].exc = "") =>
        \A element \in UNION {DOMAIN sub.composition : sub \in Substances} :
            atoms(equalizer[1].reagents, equalizer[1].coefficients, element, 1)
                = atoms(equalizer[1].products, equalizer[1].coefficients, element, 1)

\* the rank of a matrix of at most two rows (the periodic table of the model
\* has two elements): the size of its largest square minor that is not zero
rank_by_minors(m) ==
    IF /\ Len(m) >= 2
       /\ \E j, k \in 1..Len(m[1]) :
              m[1][j][1] * m[2][k][1] - m[1][k][1] * m[2][j][1] # 0
    THEN 2
    ELSE IF \E i \in 1..Len(m) : \E j \in 1..Len(m[1]) : m[i][j][1] # 0
         THEN 1
    ELSE 0

\* the dimension of the null space: columns less rank
kernel_dimension(m) == Len(m[1]) - rank_by_minors(m)

\* C11: the Equalizer raises CannotEquateReaction whenever the null space of
\* its element-by-substance matrix does not have dimension exactly 1
\* (dimension 0, or 2 and more), and yields coefficients only when the
\* dimension is exactly 1.
C11_NullspaceOne ==
    equalizer # None =>
        LET dimension == kernel_dimension(equalizer[1].matrix)
        IN  /\ dimension # 1 =>
                   /\ equalizer[1].exc = "CannotEquateReaction"
                   /\ equalizer[1].coefficients = <<>>
            /\ dimension = 1 =>
                   /\ equalizer[1].exc = ""
                   /\ DOMAIN equalizer[1].coefficients
                          = {equalizer[1].reagents[i] :
                                 i \in 1..Len(equalizer[1].reagents)}
                            \cup {equalizer[1].products[i] :
                                      i \in 1..Len(equalizer[1].products)}

C11_Witness ==
    /\ equalizer # None
    /\ kernel_dimension(equalizer[1].matrix) >= 2
    /\ equalizer[1].exc = "CannotEquateReaction"

\* the greatest common divisor of the coefficients of the substances
RECURSIVE gcd_of(_, _, _)
gcd_of(coefficients, substances, i) ==
    IF i > Len(substances) THEN 0
    ELSE gcd(Abs(coefficients[substances[i]]),
             gcd_of(coefficients, substances, i + 1))

\* C12: the coefficients the Equalizer returns are whole numbers, each the
\* size of the entry of the single basis vector of the null space times the
\* least common multiple of the denominators of the vector's entries, and
\* their greatest common divisor is 1; reagents [H2, O2] with products [H2O]
\* give H2: 2, O2: 1, H2O: 2.
C12_SmallestWhole ==
    (equalizer # None /\ equalizer[1].exc = "") =>
        LET substances == equalizer[1].reagents \o equalizer[1].products
            vector     == nullspace(equalizer[1].matrix)[1]
            multiple   == lcm([k \in 1..Len(vector) |-> vector[k][2]], 1)
            coefficients == equalizer[1].coefficients
        IN  /\ \A sub \in DOMAIN coefficients : coefficients[sub] \in Nat
            /\ \A k \in 1..Len(substances) :
                   Abs(coefficients[substances[k]]) * vector[k][2]
                       = multiple * Abs(vector[k][1])
            /\ gcd_of(coefficients, substances, 1) = 1
            /\ (equalizer[1].reagents = <<H2, O2>>
                    /\ equalizer[1].products = <<H2O>>) =>
                   /\ coefficients[H2] = 2
                   /\ coefficients[O2] = 1
                   /\ coefficients[H2O] = 2

(***************************************************************************)
(* Datum (Computations/Datum.py): the arithmetic and the methods that      *)
(* change a Datum in place.  A Datum object is the record of its           *)
(* attributes; a pint Quantity is a record [magnitude, units].             *)
(***************************************************************************)
\* what self.ALLOW_NEGATIVES evaluates to.  The class attribute of that name
\* is the function type_check_decorator returns for the property with its
\* setter, so on an object that was never assigned the attribute it is a
\* bound method ("method"); an assignment d.ALLOW_NEGATIVES = value stores
\* the value ("True" or "False") on the object.
DatumObject(variable, value, units) ==
    [variable |-> variable, magnitude |-> value, units |-> units,
     ALLOW_NEGATIVES |-> "method"]

\* the truth value Python gives the attribute: a bound method is true
ALLOW_NEGATIVES(self) == self.ALLOW_NEGATIVES # "False"

Quantity(magnitude, units) == [magnitude |-> magnitude, units |-> units]

\* x / n for a number n that is not zero
quotient(x, n) == IF n < 0 THEN (0 - x) \div (0 - n) ELSE x \div n

\* Datum._negative_value_test: the exception it raises, "" when it returns
_negative_value_test(self, value) ==
    IF value < 0 /\ ~ALLOW_NEGATIVES(self) THEN "NegativesNotAllowed" ELSE ""

\* Datum.__add__: self.quantity + other.quantity, in the units of self
__add__(self, other) ==
    IF convertable(other, self.units)
    THEN LET result == Quantity(self.magnitude + convert(other, self.units).magnitude,
                                self.units)
             exc    == _negative_value_test(self, result.magnitude)
         IN  [exc |-> exc, ret |-> IF exc = "" THEN <<result>> ELSE None]
    ELSE [exc |-> "IncompatibleUnits", ret |-> None]

\* Datum.__sub__
__sub__(self, other) ==
    IF convertable(other, self.units)
    THEN LET result == Quantity(self.magnitude - convert(other, self.units).magnitude,
                                self.units)
             exc    == _negative_value_test(self, result.magnitude)
         IN  [exc |-> exc, ret |-> IF exc = "" THEN <<result>> ELSE None]
    ELSE [exc |-> "IncompatibleUnits", ret |-> None]

\* Datum.__mul__ by a number: the product, returned in base units
__mul__(self, other) ==
    LET new_value == self.magnitude * other
        exc       == _negative_value_test(self, new_value)
    IN  [exc |-> exc,
         ret |-> IF exc = ""
                 THEN <<Quantity(new_value * Factor(self.units), BaseUnit(self.units))>>
                 ELSE None]

\* Datum.__truediv__ by a number
__truediv__(self, other) ==
    IF other = 0 THEN [exc |-> "ZeroDivisionError", ret |-> None]
    ELSE LET new_value == quotient(self.magnitude, other)
             exc       == _negative_value_test(self, new_value)
         IN  [exc |-> exc,
              ret |-> IF exc = ""
                      THEN <<Quantity(new_value * Factor(self.units),
                                      BaseUnit(self.units))>>
                      ELSE None]

\* Datum.convert as a method call: pint's Quantity.to raises
\* DimensionalityError for units of another dimension
Datum_convert(self, units) ==
    IF ~is_compatible_with(self.units, units)
    THEN [exc |-> "DimensionalityError", ret |-> None]
    ELSE [exc |-> "", ret |-> <<convert(self, units)>>]

\* Datum.rewrite: the new value, converted to the units of self, becomes the
\* magnitude; self._units is not assigned
rewrite(self, value, units) ==
    IF convertable(self, units)
    THEN LET new_datum == convert(Datum(self.variable, value, units), self.units)
         IN  [exc |-> "", self |-> [self EXCEPT !.magnitude = new_datum.magnitude]]
    ELSE [exc |-> "IncompatibleUnits", self |-> self]

\* Datum.scale
scale(self, factor) == rewrite(self, self.magnitude * factor, self.units)

(***************************************************************************)
(* The state machine of a Datum: its construction and the calls on it.     *)
(***************************************************************************)
\* the number of calls a client makes on one Datum
MaxOps == 3

DatumValues == {1000, 3000}

\* the Datum given as the other operand of an addition or a subtraction
Others == {Datum("a", 2000, "m"), Datum("a", 500, "dam"), Datum("a", 1000, "s")}

MayCallDatum == datum # None /\ calls < MaxOps

CalledDatum ==
    /\ calls' = calls + 1
    /\ UNCHANGED <<values, formulas_list, tfl, target, equalizer, file>>

\* Datum(variable, value, units)
NewDatum ==
    /\ datum = None
    /\ \E value \in DatumValues, units \in Units :
           datum' = <<DatumObject("a", value, units)>>
    /\ UNCHANGED <<values, formulas_list, tfl, target, last, calls, equalizer, file>>

\* d.ALLOW_NEGATIVES = value
SetAllowNegatives ==
    /\ MayCallDatum
    /\ \E value \in {"True", "False"} :
           /\ CalledDatum
           /\ datum' = <<[datum[1] EXCEPT !.ALLOW_NEGATIVES = value]>>
           /\ last' = Call("Datum.ALLOW_NEGATIVES", <<value>>, "", None)

\* d + other
DatumAdd ==
    /\ MayCallDatum
    /\ \E other \in Others :
           \E r \in {__add__(datum[1], other)} :
               /\ CalledDatum
               /\ last' = Call("Datum.__add__", <<other>>, r.exc, r.ret)
               /\ UNCHANGED datum

\* d - other
DatumSub ==
    /\ MayCallDatum
    /\ \E other \in Others :
           \E r \in {__sub__(datum[1], other)} :
               /\ CalledDatum
               /\ last' = Call("Datum.__sub__", <<other>>, r.exc, r.ret)
               /\ UNCHANGED datum

\* d * other
DatumMul ==
    /\ MayCallDatum
    /\ \E other \in {2, -1} :
           \E r \in {__mul__(datum[1], other)} :
               /\ CalledDatum
               /\ last' = Call("Datum.__mul__", <<other>>, r.exc, r.ret)
               /\ UNCHANGED datum

\* d / other
DatumTruediv ==
    /\ MayCallDatum
    /\ \E other \in {2, 0, -1} :
           \E r \in {__truediv__(datum[1], other)} :
               /\ CalledDatum
               /\ last' = Call("Datum.__truediv__", <<other>>, r.exc, r.ret)
               /\ UNCHANGED datum

\* d.convert(units)
DatumConvert ==
    /\ MayCallDatum
    /\ \E units \in Units :
           \E r \in {Datum_convert(datum[1], units)} :
               /\ CalledDatum
               /\ last' = Call("Datum.convert", <<units>>, r.exc, r.ret)
               /\ UNCHANGED datum

\* d.rewrite(value, units)
DatumRewrite ==
    /\ MayCallDatum
    /\ \E value \in {2000, -1000}, units \in Units :
           \E r \in {rewrite(datum[1], value, units)} :
               /\ CalledDatum
               /\ datum' = <<r.self>>
               /\ last' = Call("Datum.rewrite", <<value, units>>, r.exc, None)

\* d.scale(factor)
DatumScale ==
    /\ MayCallDatum
    /\ \E factor \in {2, -1} :
           \E r \in {scale(datum[1], factor)} :
               /\ CalledDatum
               /\ datum' = <<r.self>>
               /\ last' = Call("Datum.scale", <<factor>>, r.exc, None)

NextDatum ==
    \/ NewDatum \/ SetAllowNegatives \/ DatumAdd \/ DatumSub \/ DatumMul
    \/ DatumTruediv \/ DatumConvert \/ DatumRewrite \/ DatumScale

SpecDatum == Init /\ [][NextDatum]_vars

\* the operations of a Datum that yield a magnitude
sign_checked ==
    {"Datum.__add__", "Datum.__sub__", "Datum.__mul__", "Datum.__truediv__",
     "Datum.scale", "Datum.rewrite"}

\* the magnitude a call has yielded: that of the Datum after scale and
\* rewrite, that of the returned quantity after an arithmetic operation
magnitude_yielded(call, self) ==
    IF call.op \in {"Datum.scale", "Datum.rewrite"} THEN self.magnitude
    ELSE call.ret[1].magnitude

\* C13: an operation of a Datum whose allow_negatives is not set (addition,
\* subtraction, multiplication, division, scale, rewrite) never yields a
\* negative magnitude: it raises NegativesNotAllowed instead; scale too
\* validates the sign of the scaled magnitude.
C13_SignInvariant ==
    [][(/\ datum # None
        /\ last'.op \in sign_checked
        /\ datum[1].ALLOW_NEGATIVES # "True"
        /\ last'.exc = "")
       => magnitude_yielded(last', datum'[1]) >= 0]_vars

\* C14: after QuantityCalculator.clear(), whatever calls came before, the
\* known values are exactly the default values the registry declares (one
\* for each variable with a default, none for the others) and the working
\* copy equals the formulas read from the resource.
C14_Clear ==
    [][last'.op = "qc_clear" =>
        /\ \A i \in 1..Len(units_and_names) :
               LET line == units_and_names[i]
               IN  IF line.default_value = None
                   THEN line.symbol \notin known(values')
                   ELSE /\ line.symbol \in known(values')
                        /\ quantity_of(values', line.symbol)
                               = Datum(line.symbol, line.default_value[1], line.units)
        /\ known(values') \subseteq Symbols
        /\ Len(values') = Cardinality(known(values'))
        /\ tfl' = formulas_list]_vars

C14_Witness ==
    /\ last.op = "qc_clear"
    /\ calls >= 3
    /\ values = _read_default_values
    /\ tfl = formulas_list

\* the number of digits after the point a magnitude in thousandths is
\* written with (at least one, as in 4.0)
decimal_places(value) ==
    CHOOSE n \in 1..3 :
        /\ value % (10 ^ (3 - n)) = 0
        /\ \A fewer \in 1..(n - 1) : value % (10 ^ (3 - fewer)) # 0

\* C15: IterativeCalculator.solve returns the value of the target's variable
\* rounded to the number of digits after the point of the magnitude the
\* target had when the call started; with alter_target the target is then
\* the returned Datum, without it the target is as it was.
C15_Rounding ==
    [][(last'.op = "solve" /\ has_target) =>
        LET alter_target == last'.args[2]
            read   == convert(quantity_of(values', target[1].variable),
                              target[1].units)
            step   == 10 ^ (3 - decimal_places(target[1].magnitude))
            answer == last'.ret[1]
        IN  /\ ~alter_target => target' = target
            /\ last'.exc = "" =>
                   /\ answer.magnitude % step = 0
                   /\ 2 * Abs(answer.magnitude - read.magnitude) <= step
                   /\ alter_target =>
                          /\ target'[1].variable = answer.variable
                          /\ target'[1].magnitude = answer.magnitude
                          /\ target'[1].units = answer.units]_vars

C15_Witness ==
    /\ last.op = "solve"
    /\ last.exc = ""
    /\ last.args[2]
    /\ target[1].magnitude = last.ret[1].magnitude
    /\ convert(quantity_of(values, last.ret[1].variable),
               last.ret[1].units).magnitude # last.ret[1].magnitude

\* the call is one of scale, add, sub, div of the IterativeCalculator
is_arithmetic(call) == call.op \in {"scale", "add", "sub", "div"}

\* the call was told to allow a negative result (add and sub only)
negatives_allowed(call) == call.op \in {"add", "sub"} /\ call.args[3]

\* C16: scale, add, sub and div raise UnknownVariable for a variable that is
\* not in the registry, ValueNotFound for a registered variable without a
\* known quantity, and NegativesNotAllowed when the result would be negative
\* and negatives are not allowed; a call that raises leaves the known values
\* as they were, and a call that returns changes the quantity of the named
\* variable only.
C16_Arithmetic ==
    [][is_arithmetic(last') =>
        LET var == last'.args[1]
        IN  /\ var \notin Symbols => last'.exc = "UnknownVariableException"
            /\ (var \in Symbols /\ var \notin known(values)) =>
                   last'.exc = "ValueNotFoundException"
            /\ last'.exc # "" => values' = values
            /\ last'.exc = "" =>
                   /\ known(values') = known(values)
                   /\ \A v \in known(values) \ {var} :
                          quantity_of(values', v) = quantity_of(values, v)
                   /\ ~negatives_allowed(last') =>
                          quantity_of(values', var).magnitude >= 0]_vars

\* C17: Datum.convert(units) raises IncompatibleUnits when the units are not
\* of the dimension of the Datum's units; otherwise it returns a new Datum
\* of the same variable whose magnitude is the converted one; in both cases
\* the Datum it was called on keeps its magnitude and its units.
C17_Convert ==
    [][(datum # None /\ last'.op = "Datum.convert") =>
        LET units == last'.args[1]
        IN  /\ datum' = datum
            /\ IF Dimension(units) # Dimension(datum[1].units)
               THEN last'.exc = "IncompatibleUnits"
               ELSE /\ last'.exc = ""
                    /\ last'.ret[1].variable = datum[1].variable
                    /\ last'.ret[1].units = units
                    /\ last'.ret[1].magnitude * Factor(units)
                           = datum[1].magnitude * Factor(datum[1].units)]_vars

\* C18: Datum.rewrite(value, units) raises IncompatibleUnits and changes
\* nothing when the units cannot be converted to the Datum's units;
\* otherwise, after the call, the Datum's magnitude is value and its units
\* are units, and its variable is as before.
C18_Rewrite ==
    [][(datum # None /\ last'.op = "Datum.rewrite") =>
        LET value == last'.args[1]
            units == last'.args[2]
        IN  IF Dimension(units) # Dimension(datum[1].units)
            THEN last'.exc = "IncompatibleUnits" /\ datum' = datum
            ELSE /\ last'.exc = ""
                 /\ datum'[1].magnitude = value
                 /\ datum'[1].units = units
                 /\ datum'[1].variable = datum[1].variable]_vars

(***************************************************************************)
(* IterativeCalculator._read_assumptions on the lines of a resource.       *)
(***************************************************************************)

\* str(datum) as words: f"{self.variable} = {self.magnitude} {self.str_units}"
str_datum(d) == <<d.variable, "=", str_float(d.magnitude), str_units(d.units)>>

\* the line f'assume {var}:{value}:{str(units)}', var being the Datum: the
\* words of str(var), the last of them followed by :<value>:<units>
assume_line(var) ==
    LET words == str_datum(var)
    IN  Line("assume",
             [k \in 1..Len(words) |->
                 IF k < Len(words) THEN <<words[k]>>
                 ELSE <<words[k], str_float(var.magnitude), str_units(var.units)>>])

\* Assumption.save: the lines appended to the resource
save(lines, assumption) ==
    lines
    \o <<Line("header", assumption.symbol)>>
    \o [k \in 1..Len(assumption.variables) |->
           LET var == assumption.variables[k]
           IN  Line("variable", << <<var.variable, str_float(var.magnitude),
                                    str_units(var.units)>> >>)]
    \o [k \in 1..Len(assumption.compute) |->
           LET var == assumption.compute[k]
           IN  Line("compute", << <<var.variable, "", str_units(var.units)>> >>)]
    \o [k \in 1..Len(assumption.assume) |-> assume_line(assumption.assume[k])]
    \o <<Line("end", ""), Line("other", "")>>

\* the Datum a variable, compute or assume line is parsed into: <<Datum>>,
\* or <<>> where the parsing raises ValueError.  'a, b = line.split(' ')'
\* needs one word after the keyword; b.split(':') needs three fields, the
\* second a float; b.split('::') needs <var>::<units>
parse_datum(line) ==
    IF Len(line.content) # 1 THEN None
    ELSE LET b == line.content[1]
         IN  IF Len(b) # 3 THEN None
             ELSE IF line.kind = "compute"
             THEN IF b[2] # "" THEN None
                  ELSE <<Datum(b[1], 0, Unit(b[3]))>>
             ELSE IF float(b[2]) = <<>> THEN None
                  ELSE <<Datum(b[1], float(b[2])[1], Unit(b[3]))>>

\* the loop of _read_assumptions from line i on; assumption is None or
\* <<the block that is open>>, yielded the bundles yielded so far.  The
\* block left open at the end of the input is the generator's return value,
\* which no caller reads.
RECURSIVE read_lines(_, _, _, _)
read_lines(lines, i, assumption, yielded) ==
    IF i > Len(lines) THEN [exc |-> "", bundles |-> yielded]
    ELSE LET line == lines[i]
         IN  CASE line.kind = "comment" ->
                     read_lines(lines, i + 1, assumption, yielded)
               [] line.kind = "end" ->
                     IF assumption # None
                     THEN read_lines(lines, i + 1, None, Append(yielded, assumption[1]))
                     ELSE [exc |-> "IncorrectFileFormatting", bundles |-> yielded]
               [] line.kind = "header" ->
                     read_lines(lines, i + 1,
                                <<Assumption(line.content, <<>>, <<>>, <<>>)>>, yielded)
               [] line.kind \in {"variable", "compute", "assume"} ->
                     LET d == parse_datum(line)
                     IN  IF d = None
                         THEN [exc |-> "ValueError", bundles |-> yielded]
                         ELSE IF assumption = None
                         THEN [exc |-> "AttributeError", bundles |-> yielded]
                         ELSE read_lines(lines, i + 1,
                              << CASE line.kind = "variable" ->
                                          [assumption[1] EXCEPT !.variables =
                                              Append(@, d[1])]
                                   [] line.kind = "compute" ->
                                          [assumption[1] EXCEPT !.compute =
                                              Append(@, d[1])]
                                   [] OTHER ->
                                          [assumption[1] EXCEPT !.assume =
                                              Append(@, d[1])] >>,
                              yielded)
               [] line.kind = "alnum" ->
                     [exc |-> "IncorrectFileFormatting", bundles |-> yielded]
               [] OTHER -> read_lines(lines, i + 1, assumption, yielded)

\* [a for a in self._read_assumptions()] on the given lines
read_assumptions_of(lines) == read_lines(lines, 1, None, <<>>)

(***************************************************************************)
(* The state machine of the reader: one reading of a resource.             *)
(***************************************************************************)
\* the number of lines of a resource
MaxLines == 3

Lines ==
    { Line("comment", ""), Line("end", ""), Line("header", "S1"),
      Line("variable", << <<"a", "4.0", "m">> >>),
      Line("compute", << <<"c", "", "m">> >>),
      Line("alnum", "junk"), Line("other", "set a:1:m") }

Files == UNION {[1..n -> Lines] : n \in 1..MaxLines} \cup {Assumptions}

\* the bundles that are saved
Bundles ==
    { Assumption("S3", <<Datum("a", 4000, "dam")>>, <<Datum("c", 0, "m")>>, <<>>),
      Assumption("S3", <<Datum("a", 4000, "m")>>, <<Datum("c", 0, "m")>>,
                 <<Datum("d", 1000, "m")>>),
      Assumption("S4", <<>>, <<>>, <<>>) }

\* the resource is given its content
WriteResource ==
    /\ calls = 0
    /\ last.op = "init"
    /\ file = Assumptions
    /\ \E lines \in Files : file' = lines
    /\ UNCHANGED <<values, formulas_list, tfl, target, last, calls, equalizer, datum>>

\* assumption.save() of a bundle populated with to_set, to_compute, to_assume
Save ==
    /\ calls = 0
    /\ file = Assumptions
    /\ \E assumption \in Bundles :
           /\ file' = save(file, assumption)
           /\ last' = Call("save", <<assumption>>, "", None)
    /\ UNCHANGED <<values, formulas_list, tfl, target, calls, equalizer, datum>>

\* [a for a in IterativeCalculator._read_assumptions()]
ReadAssumptions ==
    /\ calls = 0
    /\ \E r \in {read_assumptions_of(file)} :
           /\ calls' = calls + 1
           /\ last' = Call("_read_assumptions", file, r.exc, r.bundles)
           /\ UNCHANGED <<values, formulas_list, tfl, target, equalizer, file, datum>>

NextRead == WriteResource \/ Save \/ ReadAssumptions

SpecRead == Init /\ [][NextRead]_vars

\* the last header or terminator before line i is a header: a block is open
block_open(lines, i) ==
    \E h \in 1..(i - 1) :
        /\ lines[h].kind = "header"
        /\ \A k \in (h + 1)..(i - 1) : lines[k].kind \notin {"header", "end"}

\* a block is not closed: after its header comes the end of the input or
\* another header before any terminator
missing_terminator(lines) ==
    \E h \in 1..Len(lines) :
        /\ lines[h].kind = "header"
        /\ \/ \A k \in (h + 1)..Len(lines) : lines[k].kind \notin {"header", "end"}
           \/ \E k \in (h + 1)..Len(lines) :
                  /\ lines[k].kind = "header"
                  /\ \A j \in (h + 1)..(k - 1) : lines[j].kind # "end"

terminator_without_block(lines) ==
    \E e \in 1..Len(lines) : lines[e].kind = "end" /\ ~block_open(lines, e)

unexpected_shape(lines) ==
    \E i \in 1..Len(lines) : lines[i].kind \in {"alnum", "other"}

\* C19: reading the assumption resource raises IncorrectFileFormatting for
\* every malformed block: a block whose terminator is missing (at the end of
\* the input or before the next header), a terminator with no open block,
\* and a line of unexpected shape.
C19_Malformed ==
    last.op = "_read_assumptions" =>
        ((\/ missing_terminator(last.args)
          \/ terminator_without_block(last.args)
          \/ unexpected_shape(last.args))
            => last.exc = "IncorrectFileFormatting")

\* no formula of the working copy, with the known values substituted, gives
\* a numeric solution for the variable
no_numeric_solution(vals, formulas, solve_for) ==
    LET pushed == _push(vals, formulas)
    IN  \A i \in 1..Len(pushed) : ~accepts(sp_solve(pushed[i], solve_for))

last_applied(call) == bundle(call.applied[Len(call.applied)])

\* C21 as stated: after assume returns, the preset and the temporary
\* variables of the bundle are known and every other variable that was known
\* before the call is no longer known.
C21_AsStated ==
    [][(last'.op = "assume" /\ last'.exc = "" /\ Len(last'.applied) >= 1) =>
        LET assumption == last_applied(last')
            kept == variables_of(assumption.variables)
                        \cup variables_of(assumption.assume)
        IN  /\ kept \subseteq known(values')
            /\ \A v \in known(values) \ kept : v \notin known(values')]_vars

\* C21 amended: after assume returns, the known variables are exactly the
\* preset and the derived-target variables of the bundle applied last; the
\* temporaries and every other variable that was known (registry defaults
\* and quantities written before the call included) are no longer known.
C21_Amended ==
    [][(last'.op = "assume" /\ last'.exc = "" /\ Len(last'.applied) >= 1) =>
        LET assumption == last_applied(last')
            kept == variables_of(assumption.variables)
                        \cup variables_of(assumption.compute)
        IN  /\ known(values') = kept
            /\ \A v \in variables_of(assumption.assume) \ kept :
                   v \notin known(values')
            /\ \A v \in known(values) \ kept : v \notin known(values')]_vars

\* S1 has been applied to a calculator holding the registry default b: the
\* preset a and the derived c are known, the temporary d and b are not
C21_Witness ==
    /\ last.op = "assume"
    /\ last.exc = ""
    /\ last.applied = <<"S1">>
    /\ known(values) = {"a", "c"}

(***************************************************************************)
(* The working copy of the formulas.                                       *)
(***************************************************************************)
\* C22: whenever a call of QuantityCalculator.solve has returned or raised,
\* the working copy of the formulas equals the source formula bank, and no
\* operation modifies the source formula bank.
C22_WorkingCopyReset ==
    [][/\ last'.op = "qc_solve" => tfl' = formulas_list
       /\ formulas_list' = formulas_list]_vars

\* no operation modifies the source formula bank
bank_unmodified == [][formulas_list' = formulas_list]_vars

\* C23: the result of a solve depends only on the formula bank and on the
\* quantities known at the time of the solve: it is the result the same call
\* gives on a working copy that is the formula bank, whatever was erased or
\* replaced and whichever solves failed before.
C23_KnownOnly ==
    [][/\ last'.op = "qc_solve" =>
            With(QC_solve(values, formulas_list, last'.args[1], last'.args[2], <<2>>),
                 LAMBDA r : last'.exc = r.exc /\ last'.ret = r.solutions)
       /\ (last'.op = "solve" /\ has_target) =>
            With(IC_solve(values, formulas_list, target, last'.args[1],
                          last'.args[2]),
                 LAMBDA r : /\ last'.exc = r.exc
                            /\ last'.ret = r.ret
                            /\ values' = r.values)]_vars

(***************************************************************************)
(* Which solutions QuantityCalculator.solve returns.                       *)
(***************************************************************************)
\* the solutions of a list that are numbers
numeric(solutions) == SelectSeq(solutions, is_number)

\* the position of the first formula, from position i on, that has a numeric
\* solution for the variable; 0 when there is none
RECURSIVE first_yielding(_, _, _)
first_yielding(formulas, solve_for, i) ==
    IF i > Len(formulas) THEN 0
    ELSE IF numeric(sp_solve(formulas[i], solve_for)) # <<>> THEN i
    ELSE first_yielding(formulas, solve_for, i + 1)

\* the formula bank with the known quantities substituted
substituted(vals) == _push(vals, formulas_list)

\* the Quantities solve returns for a list of numeric solutions
quantities(solutions, solve_for, answer_units, round_to) ==
    [k \in 1..Len(solutions) |->
        finish_solution(Datum(solve_for, solutions[k][2], default_units[solve_for]),
                        answer_units, round_to)]

\* C24: QuantityCalculator.solve(solve_for) returns the numeric solutions of
\* the first formula, in the order of the formula bank, that has a numeric
\* solution for solve_for once the known quantities are substituted; the
\* formulas after it do not contribute.
C24_FirstFormula ==
    [][last'.op = "qc_solve" =>
        With(substituted(values), LAMBDA pushed :
        With(first_yielding(pushed, last'.args[1], 1), LAMBDA i :
            i # 0 =>
                /\ last'.exc = ""
                /\ last'.ret = quantities(numeric(sp_solve(pushed[i], last'.args[1])),
                                          last'.args[1], last'.args[2], <<2>>)))]_vars

\* C25: of each formula of the working copy, with the known quantities
\* substituted, solve keeps exactly the solutions that are numbers (a formula
\* with numeric and non-numeric solutions gives its numeric ones), and all
\* the numeric solutions of the formula that answers are returned, each as a
\* Quantity of the variable solved for in that variable's default unit.
C25_NumericKept ==
    [][last'.op = "qc_solve" =>
        With(_push(values, tfl), LAMBDA pushed :
        With(first_yielding(pushed, last'.args[1], 1), LAMBDA i :
            i # 0 =>
                LET kept == numeric(sp_solve(pushed[i], last'.args[1]))
                IN  /\ last'.exc = ""
                    /\ Len(last'.ret) = Len(kept)
                    /\ \A k \in 1..Len(kept) :
                           /\ last'.ret[k].variable = last'.args[1]
                           /\ last'.args[2] = "default" =>
                                  /\ last'.ret[k].units = default_units[last'.args[1]]
                                  /\ last'.ret[k].magnitude = round(kept[k][2], 2)))]_vars

(***************************************************************************)
(* The loop of IterativeCalculator.solve.                                  *)
(***************************************************************************)
\* the round produced the variable of the target
target_in(tgt, made) == tgt[1].variable \in made

\* C26: one call of IterativeCalculator.solve runs at least one round and
\* its loop ends in exactly one of Fixpoint and TargetReached: Fixpoint when
\* the last round produced no quantity, TargetReached only when
\* stop_at_target is true and the last round produced the target's variable;
\* every round before the last produced a quantity and did not meet the
\* stopping condition, and with stop_at_target false the loop ends at a
\* round that produced nothing.
C26_Loop ==
    [][(last'.op = "solve" /\ has_target) =>
        LET rounds == last'.produced
            n == Len(rounds)
            stop_at_target == last'.args[1]
        IN  /\ n >= 1
            /\ n = last'.rounds
            /\ last'.end \in {"Fixpoint", "TargetReached"}
            /\ (last'.end = "Fixpoint") <=> (rounds[n] = {})
            /\ (last'.end = "TargetReached") =>
                   (stop_at_target /\ target_in(target, rounds[n]))
            /\ \A k \in 1..(n - 1) :
                   /\ rounds[k] # {}
                   /\ ~(stop_at_target /\ target_in(target, rounds[k]))
            /\ ~stop_at_target => (last'.end = "Fixpoint" /\ rounds[n] = {})
            /\ \A k \in 1..n : rounds[k] \cap known(values) = {}
            /\ known(values') = known(values) \cup UNION {rounds[k] : k \in 1..n}]_vars

\* a call that stopped at the target after more than one round, and a call
\* that went on to the fixpoint
C26_Witness ==
    /\ last.op = "solve"
    /\ last.end = "TargetReached"
    /\ last.rounds = 2
    /\ last.args[1]

C26_WitnessFixpoint ==
    /\ last.op = "solve"
    /\ last.end = "Fixpoint"
    /\ last.rounds = 3
    /\ ~last.args[1]

\* the variables, from position i of var_symbols on, that are unknown and for
\* which QuantityCalculator.solve returns in a round started on vals and on
\* the working copy formulas
RECURSIVE succeeds_from(_, _, _)
succeeds_from(vals, formulas, i) ==
    IF i > Len(var_symbols) THEN {}
    ELSE IF has_value(vals, var_symbols[i]) THEN succeeds_from(vals, formulas, i + 1)
    ELSE With(QC_solve(vals, formulas, var_symbols[i], "default", None), LAMBDA res :
             (IF res.exc = "" THEN {var_symbols[i]} ELSE {})
                 \cup succeeds_from(vals, res.tfl, i + 1))

\* C27: in the first round of a solve, every variable that is unknown at the
\* start of the round and for which QuantityCalculator.solve succeeds, with
\* one or with several numeric solutions, is written and is known after the
\* round; the round produces exactly these variables, skips the others
\* without raising, and leaves the quantities known before it unchanged.
C27_Round ==
    [][(last'.op = "solve" /\ has_target) =>
        /\ last'.produced[1] = succeeds_from(values, tfl, 1)
        /\ last'.produced[1] \subseteq known(values')
        /\ last'.end # "Raised"
        /\ \A v \in known(values) :
               /\ v \in known(values')
               /\ quantity_of(values', v) = quantity_of(values, v)]_vars

(***************************************************************************)
(* The sign of the coefficients of the Equalizer.                          *)
(***************************************************************************)
\* C28: each coefficient the Equalizer assigns to a substance is the
\* absolute value of the substance's entry in the integer-scaled basis
\* vector of the null space, so no coefficient is negative.
C28_Absolute ==
    (equalizer # None /\ equalizer[1].exc = "") =>
        LET substance_order == equalizer[1].reagents \o equalizer[1].products
            answer == _make_integers(nullspace(equalizer[1].matrix)[1])
        IN  \A k \in 1..Len(substance_order) :
                /\ equalizer[1].coefficients[substance_order[k]] = Abs(answer[k][1])
                /\ equalizer[1].coefficients[substance_order[k]] >= 0

(***************************************************************************)
(* Applying a bundle twice.                                                *)
(***************************************************************************)
\* the known quantities as a set
quantities_known(vals) == {vals[i] : i \in 1..Len(vals)}

\* C29: when assume has applied a bundle and returned, applying the same
\* bundle again right after succeeds and leaves the same known variables
\* with the same values.
C29_Repeatable ==
    [][(/\ last.op = "assume" /\ last.exc = "" /\ Len(last.applied) = 1
        /\ last'.op = "assume" /\ last'.applied = last.applied) =>
            /\ last'.exc = ""
            /\ quantities_known(values') = quantities_known(values)]_vars

(***************************************************************************)
(* Saving a bundle and reading it back.                                    *)
(***************************************************************************)
\* the placeholders name the same variables in the same units
same_targets(read, saved) ==
    /\ Len(read) = Len(saved)
    /\ \A k \in 1..Len(saved) :
           /\ read[k].variable = saved[k].variable
           /\ read[k].units = saved[k].units

\* C30: when a bundle has been saved and the resource is read back, the
\* reading succeeds and the last bundle it yields has the symbol, the
\* presets, the derived targets and the temporaries of the bundle saved
\* (same variable names, values and units).
C30_RoundTrip ==
    [][(last.op = "save" /\ last'.op = "_read_assumptions") =>
        LET saved == last.args[1]
            bundles == last'.ret
        IN  /\ last'.exc = ""
            /\ Len(bundles) >= 1
            /\ bundles[Len(bundles)].symbol = saved.symbol
            /\ bundles[Len(bundles)].variables = saved.variables
            /\ same_targets(bundles[Len(bundles)].compute, saved.compute)
            /\ bundles[Len(bundles)].assume = saved.assume]_vars

====
